---- MODULE Spec2Model ----
(***************************************************************************)
(* The Comment component of giscus-personal (src/unnamed/part_000, with    *)
(* its duplicate src/components/Giscus.tsx): the visible reply window, the *)
(* footer controls, and the optimistic upvote / reaction handlers that     *)
(* hand a new record and a promise to the owning container.                *)
(*                                                                         *)
(* React runs a handler to completion and re-renders the component before  *)
(* the next discrete event is dispatched, so every action below includes   *)
(* the re-render: the rendered output and the handlers' closures are       *)
(* always those of the current props and state.  The container that owns   *)
(* the comment list is outside the component; it commits a proposed record *)
(* by re-rendering the component with a new `comment` prop, at a time of   *)
(* its own choosing.                                                       *)
(***************************************************************************)
EXTENDS Integers, Sequences, FiniteSets, TLC

\* ------------------------------------------------------------- bounds
MaxReplies ==
  57
MaxRemote ==
  1
MaxUpvotes ==
  1
MaxClicks ==
  1
MaxUpdates ==
  2
MaxReactions ==
  1

\* ------------------------------------------------- program constants
\* comment.replies.slice(-5 - backPage * 50)
WindowBase ==
  5
PageSize ==
  50

Null ==
  "null"
DeletedAtValues ==
  {Null, "2024-01-01T00:00:00Z"}
NoToken ==
  ""
TokenValues ==
  {NoToken, "gho_token"}
Reactions ==
  {"THUMBS_UP", "HEART"}
CommentId ==
  "c1"

VARIABLES
  comment,            \* the `comment` prop
  token,              \* AuthContext.token
  onCommentUpdate,    \* TRUE iff the onCommentUpdate prop is supplied
  backPage,           \* useState(0)
  upvoteClicks,       \* clicks the user made on the upvote button
  showPreviousCalls,  \* invocations of incrementBackPage
  upvoteCalls,        \* invocations of the upvote handler
  mutations,          \* one entry per user-initiated mutation, written by the caller
  updates,            \* the calls made to onCommentUpdate, in order
  toggleCalls,        \* the calls made to toggleUpvote, in order
  promises            \* promises[p]: state of promise p

vars ==
  <<comment, token, onCommentUpdate, backPage, upvoteClicks, showPreviousCalls,
    upvoteCalls, mutations, updates, toggleCalls, promises>>

\* ---------------------------------------------------- pure functions
Min(a, b) ==
  IF a < b THEN a ELSE b

Max(a, b) ==
  IF a > b THEN a ELSE b

\* JavaScript truthiness of a string-or-null value (!!x, !x).
Truthy(x) ==
  x # Null /\ x # ""

\* Array.prototype.slice(start) with end omitted: a negative start counts
\* from the end and is clamped at 0, a positive one is clamped at length.
Slice(s, start) ==
  LET len == Len(s)
      k == IF start < 0 THEN Max(len + start, 0) ELSE Min(start, len)
  IN  SubSeq(s, k + 1, len)

\* Mutant: the start index without its sign, slice(5 + backPage * 50).
replies_positiveStart ==
  Slice(comment.replies, WindowBase + backPage * PageSize)

\* const replies = comment.replies.slice(-5 - backPage * 50);
replies ==
  Slice(comment.replies, (0 - WindowBase) - backPage * PageSize)

remainingReplies ==
  comment.replyCount - Len(replies)

\* Mutant: <= for <.
hasNextPage_orEqual ==
  Len(replies) <= Len(comment.replies)

hasNextPage ==
  Len(replies) < Len(comment.replies)

\* Mutant: the !hasNextPage conjunct dropped.
hasUnfetchedReplies_anyRemaining ==
  remainingReplies > 0

hasUnfetchedReplies ==
  ~hasNextPage /\ remainingReplies > 0

\* Mutant: deletedAt not consulted.
hidden_minimizedOnly ==
  comment.isMinimized

hidden ==
  Truthy(comment.deletedAt) \/ comment.isMinimized

\* ------------------------------------------------- rendered output
\* {!comment.isMinimized && onCommentUpdate ? <div className="gsc-comment-footer">
FooterRendered ==
  ~comment.isMinimized /\ onCommentUpdate

UpvoteButtonRendered ==
  FooterRendered

\* Mutant: the token test dropped, disabled={!comment.viewerCanUpvote}.
UpvoteDisabled_noTokenTest ==
  ~comment.viewerCanUpvote

\* Mutant: the hard-coded true dropped, disabled={!token || !comment.viewerCanUpvote}.
UpvoteDisabled_noTrue ==
  ~Truthy(token) \/ ~comment.viewerCanUpvote

\* disabled={true || !token || !comment.viewerCanUpvote}
UpvoteDisabled ==
  TRUE \/ ~Truthy(token) \/ ~comment.viewerCanUpvote

\* {!hidden ? <ReactButtons ... onReact={updateReactions} /> : null}
ReactButtonsRendered ==
  FooterRendered /\ ~hidden

\* {comment.replies.length > 0 ? <div className="... gsc-replies"> : null}
RepliesRendered ==
  Len(comment.replies) > 0

ShowPreviousRendered ==
  RepliesRendered /\ (hasNextPage \/ hasUnfetchedReplies) /\ hasNextPage

RemoteLinkRendered ==
  RepliesRendered /\ (hasNextPage \/ hasUnfetchedReplies) /\ hasUnfetchedReplies

\* ------------------------------------------------------ collaborators
\* lib/reactions updateCommentReaction: toggle the viewer's reaction in the
\* selected group only, count moving by one.
updateCommentReaction(c, reaction) ==
  [c EXCEPT !.reactions[reaction] =
     [count |-> IF @.viewerHasReacted THEN @.count - 1 ELSE @.count + 1,
      viewerHasReacted |-> ~@.viewerHasReacted]]

\* A call that starts a remote mutation returns a new pending promise.
NewPromise ==
  Len(promises) + 1

\* ------------------------------------------------------------ handlers
\* onCommentUpdate(newComment, promise): the container receives the pair.
CallOnCommentUpdate(kind, newComment, promise) ==
  updates' = Append(updates, [kind |-> kind, base |-> comment,
                              record |-> newComment, promise |-> promise])

\* updateReactions = (reaction, promise) =>
\*   onCommentUpdate(updateCommentReaction(comment, reaction), promise)
updateReactions(reaction, promise) ==
  CallOnCommentUpdate("reaction", updateCommentReaction(comment, reaction), promise)

\* Mutant: always incremented.
NewUpvoteCount_alwaysIncrement ==
  comment.upvoteCount + 1

\* Mutant: the two branches swapped.
NewUpvoteCount_swapped ==
  IF comment.viewerHasUpvoted THEN comment.upvoteCount + 1 ELSE comment.upvoteCount - 1

\* const upvoteCount = comment.viewerHasUpvoted ? comment.upvoteCount - 1
\*                                              : comment.upvoteCount + 1;
NewUpvoteCount ==
  IF comment.viewerHasUpvoted THEN comment.upvoteCount - 1 ELSE comment.upvoteCount + 1

\* const promise = toggleUpvote({upvoteInput: {subjectId: comment.id}}, token,
\*                              comment.viewerHasUpvoted);
toggleUpvote(subjectId, tok, hasUpvoted) ==
  /\ toggleCalls' = Append(toggleCalls, [subjectId |-> subjectId, token |-> tok,
                                         viewerHasUpvoted |-> hasUpvoted,
                                         viewerCanUpvote |-> comment.viewerCanUpvote,
                                         promise |-> NewPromise])
  /\ promises' = Append(promises, "pending")

\* Mutant: onCommentUpdate called without the promise of the toggleUpvote call.
upvote_promiseNotPassed ==
  /\ toggleUpvote(comment.id, token, comment.viewerHasUpvoted)
  /\ CallOnCommentUpdate("upvote",
       [comment EXCEPT !.upvoteCount = NewUpvoteCount,
                       !.viewerHasUpvoted = ~comment.viewerHasUpvoted],
       0)

upvote ==
  /\ toggleUpvote(comment.id, token, comment.viewerHasUpvoted)
  /\ CallOnCommentUpdate("upvote",
       [comment EXCEPT !.upvoteCount = NewUpvoteCount,
                       !.viewerHasUpvoted = ~comment.viewerHasUpvoted],
       NewPromise)

\* Mutant: setBackPage(1).
incrementBackPage_setToOne ==
  backPage' = 1

\* const incrementBackPage = () => setBackPage(backPage + 1);
incrementBackPage ==
  backPage' = backPage + 1

\* ---------------------------------------------------------------- Init
ReactionGroups ==
  [Reactions -> [count : {0}, viewerHasReacted : {FALSE}]]

\* Comment records: n replies cached, and either none or maxRemote more known remotely.
Comments(maxCached, maxRemote) ==
  { [id |-> CommentId, deletedAt |-> d, isMinimized |-> m,
     upvoteCount |-> u, viewerHasUpvoted |-> h, viewerCanUpvote |-> cu,
     reactions |-> r, replyCount |-> n + x, replies |-> [i \in 1..n |-> i]] :
       d \in DeletedAtValues, m \in BOOLEAN, u \in 0..MaxUpvotes, h \in BOOLEAN,
       cu \in BOOLEAN, r \in ReactionGroups, n \in 0..maxCached, x \in {0, maxRemote} }

\* The remote source counts the viewer's own upvote.
Consistent(c) ==
  c.viewerHasUpvoted => c.upvoteCount >= 1

InitWith(maxCached, maxRemote) ==
  /\ comment \in {c \in Comments(maxCached, maxRemote) : Consistent(c)}
  /\ token = NoToken
  /\ onCommentUpdate \in BOOLEAN
  /\ backPage = 0
  /\ upvoteClicks = 0
  /\ showPreviousCalls = 0
  /\ upvoteCalls = 0
  /\ mutations = <<>>
  /\ updates = <<>>
  /\ toggleCalls = <<>>
  /\ promises = <<>>

Init ==
  InitWith(MaxReplies, MaxRemote)

\* The handlers read no reply field: the comments they are tried on have no replies.
InitHandlers ==
  InitWith(0, 0)

\* ------------------------------------------------------------- actions
\* The user clicks the upvote button; a disabled button dispatches nothing.
ClickUpvote ==
  /\ UpvoteButtonRendered
  /\ upvoteClicks < MaxClicks
  /\ upvoteClicks' = upvoteClicks + 1
  /\ IF ~UpvoteDisabled /\ Len(updates) < MaxUpdates
       THEN /\ upvote
            /\ upvoteCalls' = upvoteCalls + 1
            /\ mutations' = Append(mutations, [kind |-> "upvote", given |-> 0])
       ELSE UNCHANGED <<upvoteCalls, mutations, updates, toggleCalls, promises>>
  /\ UNCHANGED <<comment, token, onCommentUpdate, backPage, showPreviousCalls>>

\* The onClick handler of the rendered upvote button, invoked whatever its
\* `disabled` attribute says.
InvokeUpvote ==
  /\ UpvoteButtonRendered
  /\ Len(updates) < MaxUpdates
  /\ upvote
  /\ upvoteCalls' = upvoteCalls + 1
  /\ mutations' = Append(mutations, [kind |-> "upvote", given |-> 0])
  /\ UNCHANGED <<comment, token, onCommentUpdate, backPage, upvoteClicks,
                 showPreviousCalls>>

\* ReactButtons starts the remote reaction call and passes its promise to onReact.
React ==
  /\ ReactButtonsRendered
  /\ Len(updates) < MaxUpdates
  /\ Cardinality({i \in 1..Len(updates) : updates[i].kind = "reaction"}) < MaxReactions
  /\ \E reaction \in Reactions :
       /\ promises' = Append(promises, "pending")
       /\ updateReactions(reaction, NewPromise)
       /\ mutations' = Append(mutations, [kind |-> "reaction", given |-> NewPromise])
  /\ UNCHANGED <<comment, token, onCommentUpdate, backPage, upvoteClicks,
                 showPreviousCalls, upvoteCalls, toggleCalls>>

\* The user clicks "show previous replies".
ShowPreviousReplies ==
  /\ ShowPreviousRendered
  /\ incrementBackPage
  /\ showPreviousCalls' = showPreviousCalls + 1
  /\ UNCHANGED <<comment, token, onCommentUpdate, upvoteClicks, upvoteCalls,
                 mutations, updates, toggleCalls, promises>>

\* The container commits a record it was handed: the component re-renders with it.
ContainerCommit ==
  /\ \E i \in 1..Len(updates) :
       /\ comment # updates[i].record
       /\ comment' = updates[i].record
  /\ UNCHANGED <<token, onCommentUpdate, backPage, upvoteClicks, showPreviousCalls,
                 upvoteCalls, mutations, updates, toggleCalls, promises>>

\* The container restores the record a rejected confirmation was based on.
ContainerRollback ==
  /\ \E i \in 1..Len(updates) :
       /\ promises[updates[i].promise] = "rejected"
       /\ comment # updates[i].base
       /\ comment' = updates[i].base
  /\ UNCHANGED <<token, onCommentUpdate, backPage, upvoteClicks, showPreviousCalls,
                 upvoteCalls, mutations, updates, toggleCalls, promises>>

\* The viewer signs in or out: the context value changes and the component re-renders.
SetToken ==
  /\ \E tok \in TokenValues :
       /\ tok # token
       /\ token' = tok
  /\ UNCHANGED <<comment, onCommentUpdate, backPage, upvoteClicks, showPreviousCalls,
                 upvoteCalls, mutations, updates, toggleCalls, promises>>

\* A remote confirmation resolves or rejects.
Settle ==
  /\ \E p \in 1..Len(promises), outcome \in {"fulfilled", "rejected"} :
       /\ promises[p] = "pending"
       /\ promises' = [promises EXCEPT ![p] = outcome]
  /\ UNCHANGED <<comment, token, onCommentUpdate, backPage, upvoteClicks,
                 showPreviousCalls, upvoteCalls, mutations, updates, toggleCalls>>

Next ==
  \/ ClickUpvote
  \/ React
  \/ ShowPreviousReplies
  \/ ContainerCommit
  \/ SetToken

Spec ==
  Init /\ [][Next]_vars

NextHandlers ==
  \/ InvokeUpvote
  \/ React
  \/ ContainerCommit
  \/ ContainerRollback
  \/ SetToken
  \/ Settle

SpecHandlers ==
  InitHandlers /\ [][NextHandlers]_vars

\* The user keeps using "show previous replies" for as long as it is offered.
SpecFair ==
  Spec /\ WF_vars(ShowPreviousReplies)

\* ================================================================ claims
UpvoteUpdates ==
  {i \in 1..Len(updates) : updates[i].kind = "upvote"}

\* The number of upvote mutations among the first i.
UpvotesUpTo(i) ==
  Cardinality({j \in 1..i : mutations[j].kind = "upvote"})

SameUpvoteFields(a, b) ==
  a.viewerHasUpvoted = b.viewerHasUpvoted /\ a.upvoteCount = b.upvoteCount

\* The smallest k with WindowBase + PageSize * k >= n.
PagesNeeded(n) ==
  CHOOSE k \in 0..n :
    /\ WindowBase + PageSize * k >= n
    /\ \A j \in 0..(k - 1) : WindowBase + PageSize * j < n

\* C1: the visible replies are the trailing min(replies.length, 5 + backPage*50)
\* elements of comment.replies, in the same order.
C1_VisibleWindowIsSuffix ==
  LET n == Len(comment.replies)
      w == Min(n, WindowBase + backPage * PageSize)
  IN  /\ Len(replies) = w
      /\ \A i \in 1..w : replies[i] = comment.replies[n - w + i]

C1_Witness ==
  /\ backPage = 1
  /\ Len(replies) = WindowBase + PageSize
  /\ Len(replies) < Len(comment.replies)

\* C2 as stated: when deletedAt is non-null or isMinimized is true, neither the
\* upvote control nor the reaction controls are rendered.
C2_Original ==
  (comment.deletedAt # Null \/ comment.isMinimized)
    => (~UpvoteButtonRendered /\ ~ReactButtonsRendered)

\* C2 amended: when deletedAt is non-null or isMinimized is true the reaction
\* controls are not rendered; the upvote control is not rendered when isMinimized
\* is true, and is rendered, disabled, for a deleted comment that is not minimized
\* whenever onCommentUpdate is supplied.
C2_HiddenControls ==
  /\ (comment.deletedAt # Null \/ comment.isMinimized) => ~ReactButtonsRendered
  /\ comment.isMinimized => ~UpvoteButtonRendered
  /\ (comment.deletedAt # Null /\ ~comment.isMinimized /\ onCommentUpdate)
       => (UpvoteButtonRendered /\ UpvoteDisabled)

C2_Witness ==
  /\ comment.deletedAt # Null
  /\ ~comment.isMinimized
  /\ Truthy(token)
  /\ comment.viewerCanUpvote
  /\ UpvoteButtonRendered
  /\ ~ReactButtonsRendered

\* C3: every user-initiated mutation calls onCommentUpdate exactly once, with the
\* new record and that mutation's promise: for upvote the promise of the one
\* toggleUpvote call it made, for a reaction the promise it was given.
C3_OneUpdatePerMutation ==
  /\ Len(updates) = Len(mutations)
  /\ Len(toggleCalls) = upvoteCalls
  /\ \A i \in 1..Len(updates) :
       /\ i <= Len(mutations)
       /\ updates[i].kind = mutations[i].kind
       /\ updates[i].promise \in 1..Len(promises)
       /\ updates[i].kind = "reaction" =>
            /\ updates[i].promise = mutations[i].given
            /\ \E r \in Reactions :
                 updates[i].record = updateCommentReaction(updates[i].base, r)
       /\ updates[i].kind = "upvote" =>
            /\ UpvotesUpTo(i) <= Len(toggleCalls)
            /\ updates[i].promise = toggleCalls[UpvotesUpTo(i)].promise
            /\ updates[i].record.viewerHasUpvoted = ~updates[i].base.viewerHasUpvoted
       /\ \A j \in 1..Len(updates) : j # i => updates[j].promise # updates[i].promise

C3_Witness ==
  /\ Len(updates) = 2
  /\ updates[1].kind = "upvote"
  /\ updates[2].kind = "reaction"
  /\ promises[updates[1].promise] = "rejected"

\* C4 as stated: of two successive upvote invocations, whatever the container has
\* committed in between, the second proposes the upvote fields the comment had
\* before the first.
C4_Original ==
  \A i, j \in UpvoteUpdates :
    (i < j /\ ~(\E k \in UpvoteUpdates : i < k /\ k < j))
      => SameUpvoteFields(updates[j].record, updates[i].base)

\* C4 amended: when the second upvote invocation is applied to the record the
\* first one proposed (the container committed it in between), with any timing
\* of the two confirmations, the second proposes the upvote fields the comment
\* had before the first.
C4_DoubleToggleRestores ==
  \A i, j \in UpvoteUpdates :
    (i < j /\ SameUpvoteFields(updates[j].base, updates[i].record))
      => SameUpvoteFields(updates[j].record, updates[i].base)

C4_Witness ==
  /\ Len(updates) = 2
  /\ UpvoteUpdates = {1, 2}
  /\ updates[2].base = updates[1].record
  /\ promises[updates[2].promise] = "fulfilled"
  /\ promises[updates[1].promise] = "pending"

C6_BackPageCountsInvocations ==
  backPage = showPreviousCalls

C6_Witness ==
  /\ showPreviousCalls = 2
  /\ Truthy(token)
  /\ Len(updates) > 0
  /\ comment = updates[1].record

\* C7 as stated, in the situation the spec names (the local window is exhausted
\* while more replies are known remotely): both controls are rendered.
C7_Original ==
  (RepliesRendered /\ Len(replies) = Len(comment.replies)
     /\ comment.replyCount > Len(comment.replies))
    => (ShowPreviousRendered /\ RemoteLinkRendered)

\* C7 amended: in no reachable state are the local "show previous replies"
\* control and the remote link both rendered; the link is rendered only once the
\* local window shows every cached reply.
C7_NeverBothControls ==
  /\ ~(ShowPreviousRendered /\ RemoteLinkRendered)
  /\ RemoteLinkRendered => Len(replies) = Len(comment.replies)

C7_Witness ==
  /\ showPreviousCalls = 1
  /\ Len(replies) = Len(comment.replies)
  /\ comment.replyCount > Len(comment.replies)
  /\ RemoteLinkRendered
  /\ ~ShowPreviousRendered

\* C8: toggleUpvote is only ever called with a token present and viewerCanUpvote
\* true, and with no token or viewerCanUpvote false the rendered upvote control
\* is disabled.
C8_NoRemoteCallWithoutAuthorization ==
  /\ \A i \in 1..Len(toggleCalls) :
       Truthy(toggleCalls[i].token) /\ toggleCalls[i].viewerCanUpvote
  /\ (UpvoteButtonRendered /\ (~Truthy(token) \/ ~comment.viewerCanUpvote))
       => UpvoteDisabled

C8_Witness ==
  /\ upvoteClicks > 0
  /\ UpvoteButtonRendered
  /\ ~Truthy(token)
  /\ comment.viewerCanUpvote
  /\ toggleCalls = <<>>

\* C9: the upvote control is disabled in every state, so through the rendered
\* interface the upvote handler never runs, toggleUpvote is never called and no
\* record with changed upvote fields reaches onCommentUpdate.
C9_UpvoteNeverInvoked ==
  /\ UpvoteDisabled
  /\ upvoteCalls = 0
  /\ toggleCalls = <<>>
  /\ \A i \in 1..Len(updates) : SameUpvoteFields(updates[i].record, updates[i].base)

C9_Witness ==
  /\ upvoteClicks > 0
  /\ UpvoteButtonRendered
  /\ Truthy(token)
  /\ comment.viewerCanUpvote
  /\ Len(updates) > 0

\* C10: the "show previous replies" control is rendered exactly while the visible
\* window is shorter than comment.replies; once every cached reply is visible
\* backPage no longer changes; backPage never exceeds the smallest k with
\* 5 + 50*k >= replies.length; and a user who keeps using the control reaches,
\* and stays in, a state where every cached reply is visible and the control is gone.
C10_PagingTerminates ==
  /\ [](ShowPreviousRendered <=> Len(replies) < Len(comment.replies))
  /\ [](backPage <= PagesNeeded(Len(comment.replies)))
  /\ [][Len(replies) = Len(comment.replies) => backPage' = backPage]_vars
  /\ <>[](Len(replies) = Len(comment.replies) /\ ~ShowPreviousRendered)

C10_Witness ==
  /\ backPage = 2
  /\ backPage = PagesNeeded(Len(comment.replies))
  /\ Len(replies) = Len(comment.replies)
  /\ ~ShowPreviousRendered

====
